---- MODULE Spec2Model ----
(***************************************************************************)
(* A model of adts-reader (src/src/lib.rs): the ADTS header decoder        *)
(* AdtsHeader and the incremental parser AdtsParser.  Bytes are the        *)
(* integers 0..255, a buffer is a sequence of bytes; the source's index    *)
(* buf[i] is At(buf, i).                                                   *)
(***************************************************************************)
EXTENDS Integers, Sequences, FiniteSets, TLC

VARIABLES
    state,             \* AdtsParser.state: "Start" | "Incomplete" | "Error"
    current_config,    \* AdtsParser.current_config: [u8; 3]
    incomplete_frame,  \* AdtsParser.incomplete_frame: Vec<u8>
    desired_data_len,  \* AdtsParser.desired_data_len: Option<usize>, <<>> or <<n>>
    consumer,          \* the AdtsConsumer's calls so far, in order
    panicked,          \* "" or the panic that aborted the program
    stream,            \* the bytes the driver will push, in order
    fed,               \* how many bytes of stream have been pushed
    op,                \* the last operation: "new" | "push" | "start"
    pre,               \* AdtsParser.state before the last operation
    decoded,           \* results of the from_bytes calls of the last push
    npush,             \* number of push calls so far, saturating at PushCap
    started,           \* start() has been called since creation
    mark,              \* Len(consumer) at creation or at the last start()
    hbuf,              \* the buffer handed to AdtsHeader::from_bytes directly
    hres,              \* what from_bytes(hbuf) returned, tag "None" before the call
    hfields,           \* the field values write_frame wrote into hbuf
    hview              \* what the accessors of the decoded header returned

vars == <<state, current_config, incomplete_frame, desired_data_len, consumer,
          panicked, stream, fed, op, pre, decoded, npush, started, mark,
          hbuf, hres, hfields, hview>>

----------------------------------------------------------------------------
(* Bounds of the model. *)

\* length in bytes of the longest stream pushed
MaxLen == 20

\* npush stops counting here ("PushCap or more pushes")
PushCap == 3

----------------------------------------------------------------------------
(* Machine arithmetic on u8 / u16 values. *)

RECURSIVE BitAnd(_, _)
BitAnd(a, b) ==
    IF a = 0 \/ b = 0 THEN 0
    ELSE (IF a % 2 = 1 /\ b % 2 = 1 THEN 1 ELSE 0) + 2 * BitAnd(a \div 2, b \div 2)

RECURSIVE BitOr(_, _)
BitOr(a, b) ==
    IF a = 0 THEN b
    ELSE IF b = 0 THEN a
    ELSE (IF a % 2 = 1 \/ b % 2 = 1 THEN 1 ELSE 0) + 2 * BitOr(a \div 2, b \div 2)

\* x << n in a w-bit unsigned type (bits shifted out are lost)
Shl(x, n, w) == (x * (2 ^ n)) % (2 ^ w)

\* x >> n
Shr(x, n) == x \div (2 ^ n)

Byte == 0 .. 255

At(buf, i) == buf[i + 1]

Take(s, n) == SubSeq(s, 1, n)

Drop(s, n) == SubSeq(s, n + 1, Len(s))

None == << >>

Some(n) == << n >>

----------------------------------------------------------------------------
(* AdtsHeader: a view over a borrowed buffer; every accessor recomputes     *)
(* from the bytes.                                                          *)

\* sync_word with byte 0 moved up a whole byte
sync_word_byte_shift(buf) == BitOr(Shl(At(buf, 0), 8, 16), Shr(At(buf, 1), 4))

sync_word(buf) == BitOr(Shl(At(buf, 0), 4, 16), Shr(At(buf, 1), 4))

mpeg_version(buf) ==
    IF BitAnd(At(buf, 1), 8) # 0 THEN "Mpeg2" ELSE "Mpeg4"

protection(buf) ==
    IF BitAnd(At(buf, 1), 1) # 0 THEN "CrcAbsent" ELSE "CrcPresent"

audio_object_type(buf) ==
    LET v == BitAnd(At(buf, 2), 192)
    IN  CASE v = 0   -> "AacMain"
          [] v = 64  -> "AacLC"
          [] v = 128 -> "AacSSR"
          [] v = 192 -> "AacLTP"

\* SamplingFrequency::from: the enum value is the 4-bit index itself
SamplingFrequency_from(value) ==
    IF value \in 0 .. 15 THEN value ELSE -1

sampling_frequency(buf) ==
    SamplingFrequency_from(BitAnd(Shr(At(buf, 2), 2), 15))

\* SamplingFrequency::freq: <<>> for the reserved indices
freq(sf) ==
    CASE sf = 0  -> Some(96000)
      [] sf = 1  -> Some(88200)
      [] sf = 2  -> Some(64000)
      [] sf = 3  -> Some(48000)
      [] sf = 4  -> Some(44100)
      [] sf = 5  -> Some(32000)
      [] sf = 6  -> Some(24000)
      [] sf = 7  -> Some(22050)
      [] sf = 8  -> Some(16000)
      [] sf = 9  -> Some(12000)
      [] sf = 10 -> Some(11025)
      [] sf = 11 -> Some(8000)
      [] OTHER   -> None

private_bit(buf) == BitAnd(At(buf, 2), 1)

\* ChannelConfiguration::from
ChannelConfiguration_from(value) ==
    CASE value = 0 -> "ObjectTypeSpecificConfig"
      [] value = 1 -> "Mono"
      [] value = 2 -> "Stereo"
      [] value = 3 -> "Three"
      [] value = 4 -> "Four"
      [] value = 5 -> "Five"
      [] value = 6 -> "FiveOne"
      [] value = 7 -> "SevenOne"

\* channel_configuration without the bit stored in byte 2
channel_configuration_low_bits(buf) ==
    ChannelConfiguration_from(Shr(At(buf, 3), 6))

channel_configuration(buf) ==
    ChannelConfiguration_from(
        BitOr(BitAnd(Shl(At(buf, 2), 2, 8), 4), Shr(At(buf, 3), 6)))

originality(buf) ==
    IF BitAnd(At(buf, 3), 32) # 0 THEN "Copy" ELSE "Original"

home(buf) == BitAnd(Shr(At(buf, 3), 4), 1)

copyright_identification_bit(buf) == BitAnd(Shr(At(buf, 3), 3), 1)

copyright_identification_start(buf) ==
    IF BitAnd(At(buf, 3), 4) # 0 THEN "Start" ELSE "Other"

frame_length(buf) ==
    BitOr(BitOr(Shl(BitAnd(At(buf, 3), 3), 11, 16), Shl(At(buf, 4), 3, 16)),
          Shr(At(buf, 5), 5))

\* header_length that never counts the checksum
header_length_fixed(buf) == 7

header_length(buf) ==
    LET fixed_len == 7
    IN  IF protection(buf) = "CrcPresent" THEN fixed_len + 2 ELSE fixed_len

payload_length(buf) ==
    LET diff == frame_length(buf) - header_length(buf)
    IN  IF diff >= 0 THEN Some(diff) ELSE None

adts_buffer_fullness(buf) ==
    BitOr(Shl(BitAnd(At(buf, 5), 3), 6, 16), Shr(At(buf, 6), 2))

crc(buf) ==
    IF protection(buf) = "CrcAbsent" THEN None
    ELSE Some(BitOr(Shl(At(buf, 7), 8, 16), At(buf, 8)))

number_of_raw_data_blocks_in_frame(buf) == BitAnd(At(buf, 6), 3) + 1

\* AdtsHeader::payload: the bytes [header_length, frame_length) of the
\* header's own buffer, or PayloadError when the buffer is shorter
\* payload that starts right after the fixed header, checksum or not
payload_after_fixed_header(buf) ==
    LET len == frame_length(buf)
    IN  IF Len(buf) < len
        THEN [tag |-> "PayloadError", expected |-> len, actual |-> Len(buf)]
        ELSE [tag |-> "Ok", bytes |-> SubSeq(buf, 7 + 1, len)]

payload(buf) ==
    LET len == frame_length(buf)
    IN  IF Len(buf) < len
        THEN [tag |-> "PayloadError", expected |-> len, actual |-> Len(buf)]
        ELSE [tag |-> "Ok", bytes |-> SubSeq(buf, header_length(buf) + 1, len)]

\* check_len with the comparison off by one
check_len_inclusive(expected, actual) ==
    IF actual <= expected
    THEN [tag |-> "NotEnoughData", expected |-> expected, actual |-> actual]
    ELSE [tag |-> "Ok"]

check_len(expected, actual) ==
    IF actual < expected
    THEN [tag |-> "NotEnoughData", expected |-> expected, actual |-> actual]
    ELSE [tag |-> "Ok"]

\* from_bytes without the length check for the checksum bytes
from_bytes_no_crc_check(buf) ==
    IF Len(buf) = 0 THEN [tag |-> "Panic"]
    ELSE
    LET c1 == check_len(7, Len(buf))
    IN  IF c1.tag # "Ok" THEN c1
        ELSE IF sync_word(buf) # 4095
        THEN [tag |-> "BadSyncWord", value |-> sync_word(buf)]
        ELSE IF frame_length(buf) < header_length(buf)
        THEN [tag |-> "BadFrameLength",
              actual |-> frame_length(buf),
              minimum |-> header_length(buf)]
        ELSE [tag |-> "Ok"]

\* from_bytes with the length check for the checksum bytes ahead of the
\* sync word test
from_bytes_crc_check_first(buf) ==
    IF Len(buf) = 0 THEN [tag |-> "Panic"]
    ELSE
    LET c1 == check_len(7, Len(buf))
    IN  IF c1.tag # "Ok" THEN c1
        ELSE
        LET c2 == IF protection(buf) = "CrcPresent"
                  THEN check_len(7 + 2, Len(buf))
                  ELSE [tag |-> "Ok"]
        IN  IF c2.tag # "Ok" THEN c2
            ELSE IF sync_word(buf) # 4095
            THEN [tag |-> "BadSyncWord", value |-> sync_word(buf)]
            ELSE IF frame_length(buf) < header_length(buf)
            THEN [tag |-> "BadFrameLength",
                  actual |-> frame_length(buf),
                  minimum |-> header_length(buf)]
            ELSE [tag |-> "Ok"]

\* AdtsHeader::from_bytes; tag "Panic" is the failed assert!(!buf.is_empty())
from_bytes(buf) ==
    IF Len(buf) = 0 THEN [tag |-> "Panic"]
    ELSE
    LET header_len == 7
        crc_len == 2
        c1 == check_len(header_len, Len(buf))
    IN  IF c1.tag # "Ok" THEN c1
        ELSE IF sync_word(buf) # 4095
        THEN [tag |-> "BadSyncWord", value |-> sync_word(buf)]
        ELSE
        LET c2 == IF protection(buf) = "CrcPresent"
                  THEN check_len(header_len + crc_len, Len(buf))
                  ELSE [tag |-> "Ok"]
        IN  IF c2.tag # "Ok" THEN c2
            ELSE IF frame_length(buf) < header_length(buf)
            THEN [tag |-> "BadFrameLength",
                  actual |-> frame_length(buf),
                  minimum |-> header_length(buf)]
            ELSE [tag |-> "Ok"]

----------------------------------------------------------------------------
(* AdtsParser.  A parser value p is the record of the struct's fields,     *)
(* with the consumer's call log, the panic (if any) and the decode results *)
(* of the push in progress.                                                *)

\* AdtsParser::new
new ==
    [state            |-> "Start",
     current_config   |-> <<0, 0, 0>>,
     incomplete_frame |-> << >>,
     desired_data_len |-> None,
     consumer         |-> << >>,
     panicked         |-> "",
     decoded          |-> << >>]

\* is_new_config comparing two bytes only
is_new_config_two_bytes(p, header_data) ==
    SubSeq(p.current_config, 1, 2) # SubSeq(header_data, 1, 2)

is_new_config(p, header_data) ==
    p.current_config # SubSeq(header_data, 1, 3)

\* remember without the copy of the unconsumed tail
remember_no_copy(p, remaining_data, desired) ==
    [p EXCEPT !.state = "Incomplete",
              !.incomplete_frame = << >>,
              !.desired_data_len = Some(desired)]

\* remember without incomplete_frame.clear()
remember_no_clear(p, remaining_data, desired) ==
    [p EXCEPT !.state = "Incomplete",
              !.incomplete_frame = @ \o remaining_data,
              !.desired_data_len = Some(desired)]

\* remember without self.desired_data_len = Some(desired_data_len)
remember_no_desired(p, remaining_data, desired) ==
    [p EXCEPT !.state = "Incomplete",
              !.incomplete_frame = remaining_data]

\* remember that copies at most the fixed header of the unconsumed tail
remember_header_only(p, remaining_data, desired) ==
    [p EXCEPT !.state = "Incomplete",
              !.incomplete_frame = IF Len(remaining_data) > 7
                                   THEN Take(remaining_data, 7)
                                   ELSE remaining_data,
              !.desired_data_len = Some(desired)]

remember(p, remaining_data, desired) ==
    [p EXCEPT !.state = "Incomplete",
              !.incomplete_frame = remaining_data,
              !.desired_data_len = Some(desired)]

\* start that keeps the buffered partial frame
start_keeps_buffer(p) == [p EXCEPT !.state = "Start"]

\* start that also forgets the configuration seen so far
start_clears_config(p) ==
    LET q == IF p.state = "Incomplete"
             THEN [p EXCEPT !.incomplete_frame = << >>,
                            !.desired_data_len = None]
             ELSE p
    IN  [q EXCEPT !.state = "Start", !.current_config = <<0, 0, 0>>]

start(p) ==
    LET q == IF p.state = "Incomplete"
             THEN [p EXCEPT !.incomplete_frame = << >>,
                            !.desired_data_len = None]
             ELSE p
    IN  [q EXCEPT !.state = "Start"]

\* AdtsConsumer::error
consumer_error(p, err) ==
    [p EXCEPT !.consumer = Append(@, [cb |-> "error", err |-> err])]

push_config(p, h, frame_buffer) ==
    [p EXCEPT !.current_config = SubSeq(frame_buffer, 1, 3),
              !.consumer = Append(@,
                  [cb           |-> "new_config",
                   mpeg_version |-> mpeg_version(h),
                   protection   |-> protection(h),
                   aot          |-> audio_object_type(h),
                   freq         |-> sampling_frequency(h),
                   private_bit  |-> private_bit(h),
                   channels     |-> channel_configuration(h),
                   originality  |-> originality(h),
                   home         |-> home(h)])]

push_payload(p, h) ==
    LET r == payload(h)
    IN  IF r.tag = "Ok"
        THEN [p EXCEPT !.consumer = Append(@,
                 [cb               |-> "payload",
                  buffer_fullness  |-> adts_buffer_fullness(h),
                  number_of_blocks |-> number_of_raw_data_blocks_in_frame(h),
                  buf              |-> r.bytes])]
        ELSE [p EXCEPT !.panicked = "Unexpected payload size mismatch"]

\* one more from_bytes result of the push in progress, with the loop
\* iteration it belongs to: it.loop is the loop, it.len the length of the
\* buffer decoded, it.took the bytes of the chunk the iteration moved into
\* incomplete_frame, it.left the bytes of the chunk from the loop's position
\* on, it.flen the frame_length of the header when one was decoded
note(p, r, it) ==
    IF r.tag = "Panic"
    THEN [p EXCEPT !.decoded = Append(@, r @@ it),
                   !.panicked = "assertion failed: !buf.is_empty()"]
    ELSE [p EXCEPT !.decoded = Append(@, r @@ it)]

\* push, Start loop, a frame that lies whole in the chunk (lines 634-643)
deliver_start(p, h, remaining_data) ==
    LET p1 == IF is_new_config(p, remaining_data)
              THEN push_config(p, h, remaining_data)
              ELSE p
        p2 == push_payload(p1, h)
    IN  IF p2.panicked # "" THEN p2 ELSE [p2 EXCEPT !.state = "Start"]

\* the Err arm of the Start loop without self.state = AdtsState::Error
err_start_no_fault(p, e, remaining_data) ==
    CASE e.tag = "BadSyncWord"    -> consumer_error(p, "BadSyncWord")
      [] e.tag = "BadFrameLength" -> consumer_error(p, "BadFrameLength")
      [] e.tag = "NotEnoughData"  -> remember(p, remaining_data, e.expected)

\* the Err arm of the Start loop keeping the rest of the chunk for every
\* error, not only for NotEnoughData
err_start_keeps_rest(p, e, remaining_data) ==
    LET p1 == [p EXCEPT !.state = "Error",
                        !.incomplete_frame = remaining_data]
    IN  CASE e.tag = "BadSyncWord"    -> consumer_error(p1, "BadSyncWord")
          [] e.tag = "BadFrameLength" -> consumer_error(p1, "BadFrameLength")
          [] e.tag = "NotEnoughData"  -> remember(p1, remaining_data, e.expected)

\* the Err arm of the Start loop calling error() for NotEnoughData too
err_start_reports_short(p, e, remaining_data) ==
    LET p1 == [p EXCEPT !.state = "Error"]
    IN  CASE e.tag = "BadSyncWord"    -> consumer_error(p1, "BadSyncWord")
          [] e.tag = "BadFrameLength" -> consumer_error(p1, "BadFrameLength")
          [] e.tag = "NotEnoughData"  ->
                remember(consumer_error(p1, "NotEnoughData"),
                         remaining_data, e.expected)

\* push, Start loop, the Err arm (lines 611-627)
err_start(p, e, remaining_data) ==
    LET p1 == [p EXCEPT !.state = "Error"]
    IN  CASE e.tag = "BadSyncWord"    -> consumer_error(p1, "BadSyncWord")
          [] e.tag = "BadFrameLength" -> consumer_error(p1, "BadFrameLength")
          [] e.tag = "NotEnoughData"  -> remember(p1, remaining_data, e.expected)

\* the position moved past the header only
advance_header_only(pos, h) == pos + header_length(h)

\* the position moved past a header and then a whole frame_length
advance_header_and_frame(pos, h) == pos + header_length(h) + frame_length(h)

\* let new_pos = pos + h.frame_length() as usize (line 629)
advance(pos, h) == pos + frame_length(h)

\* push, the while loop over the chunk from pos (lines 606-645)
RECURSIVE start_loop(_, _, _)
start_loop(p, buf, pos) ==
    IF ~(pos < Len(buf)) THEN p
    ELSE
    LET remaining_data == Drop(buf, pos)
        r  == from_bytes(remaining_data)
        p1 == note(p, r, [loop |-> "Start",
                          len  |-> Len(remaining_data),
                          took |-> 0,
                          left |-> Len(buf) - pos,
                          flen |-> IF r.tag = "Ok"
                                   THEN frame_length(remaining_data) ELSE 0])
    IN  IF p1.panicked # "" THEN p1
        ELSE IF r.tag # "Ok" THEN err_start(p1, r, remaining_data)
        ELSE
        LET new_pos == advance(pos, remaining_data)
        IN  IF new_pos > Len(buf)
            THEN remember(p1, remaining_data, frame_length(remaining_data))
            ELSE LET p2 == deliver_start(p1, remaining_data, remaining_data)
                 IN  IF p2.panicked # "" THEN p2
                     ELSE start_loop(p2, buf, new_pos)

\* the completed buffered frame delivered without self.state = AdtsState::Start
deliver_incomplete_no_reset(p, h) ==
    LET p1 == IF is_new_config(p, p.incomplete_frame)
              THEN push_config(p, h, p.incomplete_frame)
              ELSE p
    IN  push_payload(p1, h)

\* push, Incomplete loop, the buffered frame is whole (lines 569-578)
deliver_incomplete(p, h) ==
    LET p1 == IF is_new_config(p, p.incomplete_frame)
              THEN push_config(p, h, p.incomplete_frame)
              ELSE p
        p2 == push_payload(p1, h)
    IN  IF p2.panicked # "" THEN p2 ELSE [p2 EXCEPT !.state = "Start"]

\* push, Incomplete loop, the Err arm (lines 581-597); still_more is whether
\* the loop goes round again
err_incomplete(p, e) ==
    LET p1 == [p EXCEPT !.state = "Error"]
    IN  CASE e.tag = "BadSyncWord" ->
                [p |-> consumer_error(p1, "BadSyncWord"), still_more |-> FALSE]
          [] e.tag = "BadFrameLength" ->
                [p |-> consumer_error(p1, "BadFrameLength"), still_more |-> FALSE]
          [] e.tag = "NotEnoughData" ->
                [p |-> [p1 EXCEPT !.desired_data_len = Some(e.expected)],
                 still_more |-> TRUE]

\* push, the loop of the Incomplete arm (lines 553-602), then the Start loop
\* over what is left of the chunk.  overflow_checks: the build panics on
\* integer overflow (debug) instead of wrapping (release); a wrapped
\* bytes_needed_to_complete_frame exceeds every buffer length.
RECURSIVE incomplete_loop(_, _, _)
incomplete_loop(p, buf, overflow_checks) ==
    IF p.desired_data_len = None
    THEN [p EXCEPT !.panicked = "called Option::unwrap() on a None value"]
    ELSE
    LET desired == p.desired_data_len[1]
        have    == Len(p.incomplete_frame)
        wraps   == desired < have
        bytes_needed_to_complete_frame == desired - have
    IN  IF wraps /\ overflow_checks
        THEN [p EXCEPT !.panicked = "attempt to subtract with overflow"]
        ELSE IF wraps \/ Len(buf) < bytes_needed_to_complete_frame
        THEN [p EXCEPT !.incomplete_frame = @ \o buf]
        ELSE
        LET p1 == [p EXCEPT !.incomplete_frame =
                       @ \o Take(buf, bytes_needed_to_complete_frame)]
            rest == Drop(buf, bytes_needed_to_complete_frame)
            r  == from_bytes(p1.incomplete_frame)
            p2 == note(p1, r, [loop |-> "Incomplete",
                               len  |-> Len(p1.incomplete_frame),
                               took |-> bytes_needed_to_complete_frame,
                               left |-> Len(rest),
                               flen |-> IF r.tag = "Ok"
                                        THEN frame_length(p1.incomplete_frame)
                                        ELSE 0])
        IN  IF p2.panicked # "" THEN p2
            ELSE IF r.tag = "Ok"
            THEN IF frame_length(p2.incomplete_frame) > Len(p2.incomplete_frame)
                 THEN incomplete_loop(
                          [p2 EXCEPT !.desired_data_len =
                               Some(frame_length(p2.incomplete_frame))],
                          rest, overflow_checks)
                 ELSE LET p3 == deliver_incomplete(p2, p2.incomplete_frame)
                      IN  IF p3.panicked # "" THEN p3
                          ELSE start_loop(p3, rest, 0)
            ELSE LET e == err_incomplete(p2, r)
                 IN  IF e.still_more
                     THEN incomplete_loop(e.p, rest, overflow_checks)
                     ELSE e.p

\* push in Error that scans the chunk for frames instead of returning
push_error_rescan(p, adts_buf) == start_loop(p, adts_buf, 0)

\* push while in AdtsState::Error (line 547)
push_error(p, adts_buf) == p

\* AdtsParser::push
push(p, adts_buf, overflow_checks) ==
    LET p0 == [p EXCEPT !.decoded = << >>]
    IN  CASE p.state = "Error"      -> push_error(p0, adts_buf)
          [] p.state = "Incomplete" -> incomplete_loop(p0, adts_buf, overflow_checks)
          [] p.state = "Start"      -> start_loop(p0, adts_buf, 0)

----------------------------------------------------------------------------
(* The byte streams pushed: frames written as the test helper write_frame  *)
(* writes them, MSB first.                                                 *)

\* BitWriter::write(bits, value): the low `bits` bits of value, MSB first
RECURSIVE write(_, _)
write(bits, value) ==
    IF bits = 0 THEN << >>
    ELSE Append(write(bits - 1, value \div 2), value % 2)

\* the bytes of a bit sequence whose length is a multiple of 8
RECURSIVE into_bytes(_)
into_bytes(w) ==
    IF Len(w) < 8 THEN << >>
    ELSE << w[1] * 128 + w[2] * 64 + w[3] * 32 + w[4] * 16
            + w[5] * 8 + w[6] * 4 + w[7] * 2 + w[8] >> \o into_bytes(Drop(w, 8))

\* tests::write_frame with the field values as parameters; check is the
\* checksum (<<>> or two bytes), data the payload bytes
write_frame(f, check, data) ==
    into_bytes(
        write(12, f.sync_word)
        \o write(1, f.mpeg_version)
        \o write(2, f.layer)
        \o write(1, f.protection_absent)
        \o write(2, f.object_type)
        \o write(4, f.sampling_frequency_index)
        \o write(1, f.private_bit)
        \o write(3, f.channel_configuration)
        \o write(1, f.original_copy)
        \o write(1, f.home)
        \o write(1, f.copyright_identification_bit)
        \o write(1, f.copyright_identification_start)
        \o write(13, f.frame_length)
        \o write(11, f.adts_buffer_fullness)
        \o write(2, f.number_of_raw_data_blocks_in_frame))
    \o check \o data

\* the field values tests::write_frame writes
TestFields ==
    [sync_word                          |-> 4095,
     mpeg_version                       |-> 0,
     layer                              |-> 0,
     protection_absent                  |-> 1,
     object_type                        |-> 0,
     sampling_frequency_index           |-> 3,
     private_bit                        |-> 1,
     channel_configuration              |-> 2,
     original_copy                      |-> 1,
     home                               |-> 0,
     copyright_identification_bit       |-> 0,
     copyright_identification_start     |-> 1,
     frame_length                       |-> 8,
     adts_buffer_fullness               |-> 123,
     number_of_raw_data_blocks_in_frame |-> 0]

\* a well-formed frame: frame_length counts header, checksum and payload
Frame(f, check, data) ==
    write_frame([f EXCEPT !.frame_length = 7 + Len(check) + Len(data)],
                check, data)

\* the frame of tests::no_crc, tests::parser and tests::too_short
TestFrame == write_frame(TestFields, << >>, <<129>>)

\* the first three bytes of TestFrame, but another channel layout,
\* originality and home; a payload that looks like a sync word
MonoFrame ==
    Frame([TestFields EXCEPT !.channel_configuration = 1,
                             !.original_copy = 0,
                             !.home = 1,
                             !.adts_buffer_fullness = 1500,
                             !.number_of_raw_data_blocks_in_frame = 3],
          << >>, <<255, 241>>)

\* checksum present, one payload byte
CrcFrame == Frame([TestFields EXCEPT !.protection_absent = 0], <<18, 52>>, <<66>>)

\* checksum present, no payload
CrcOnlyFrame ==
    Frame([TestFields EXCEPT !.protection_absent = 0,
                             !.sampling_frequency_index = 4], <<171, 205>>, << >>)

\* another configuration, no payload
OtherFrame ==
    Frame([TestFields EXCEPT !.mpeg_version = 1,
                             !.object_type = 1,
                             !.sampling_frequency_index = 12,
                             !.private_bit = 0,
                             !.channel_configuration = 7], << >>, << >>)

GoodFrames == {TestFrame, MonoFrame, CrcFrame, CrcOnlyFrame, OtherFrame}

\* first 12 bits not 0xFFF
BadSyncFrame == write_frame([TestFields EXCEPT !.sync_word = 4079], << >>, <<129>>)

\* first 12 bits not 0xFFF, checksum flagged present, 7 bytes
BadSyncCrcFrame ==
    write_frame([TestFields EXCEPT !.sync_word = 2047,
                                   !.protection_absent = 0], << >>, << >>)

\* frame_length 3 with a 7-byte header
ShortFrame == write_frame([TestFields EXCEPT !.frame_length = 3], << >>, << >>)

\* frame_length 8 with a 9-byte header
ShortCrcFrame ==
    write_frame([TestFields EXCEPT !.protection_absent = 0,
                                   !.frame_length = 8], <<0, 0>>, << >>)

\* the header of a frame of the largest length the 13-bit field can declare
HugeFrame == write_frame([TestFields EXCEPT !.frame_length = 8191], << >>, << >>)

BadFrames == {BadSyncFrame, ShortFrame, ShortCrcFrame}

Pieces == GoodFrames \cup BadFrames \cup {HugeFrame}

\* the concatenations of n pieces drawn from S
RECURSIVE Concats(_, _)
Concats(S, n) ==
    IF n = 0 THEN {<< >>}
    ELSE {a \o b : a \in S, b \in Concats(S, n - 1)}

\* every stream of whole pieces of at most MaxLen bytes (a piece has at
\* least the 7 bytes of a header)
Streams ==
    {s \in UNION {Concats(Pieces, n) : n \in 1 .. (MaxLen \div 7)} :
        Len(s) <= MaxLen}

----------------------------------------------------------------------------
(* The driver: a fresh parser, then any push of the next bytes of the      *)
(* stream (any chunk length, empty included) or start(), in any order.     *)

Parser ==
    [state            |-> state,
     current_config   |-> current_config,
     incomplete_frame |-> incomplete_frame,
     desired_data_len |-> desired_data_len,
     consumer         |-> consumer,
     panicked         |-> panicked,
     decoded          |-> decoded]

Install(q) ==
    /\ state' = q.state
    /\ current_config' = q.current_config
    /\ incomplete_frame' = q.incomplete_frame
    /\ desired_data_len' = q.desired_data_len
    /\ consumer' = q.consumer
    /\ panicked' = q.panicked
    /\ decoded' = q.decoded

\* a parser fresh from AdtsParser::new, nothing pushed
Fresh ==
    /\ state = new.state
    /\ current_config = new.current_config
    /\ incomplete_frame = new.incomplete_frame
    /\ desired_data_len = new.desired_data_len
    /\ consumer = new.consumer
    /\ panicked = new.panicked
    /\ decoded = new.decoded
    /\ fed = 0
    /\ op = "new"
    /\ pre = "Start"
    /\ npush = 0
    /\ started = FALSE
    /\ mark = 0

Init ==
    /\ stream \in Streams
    /\ Fresh
    /\ hbuf = << >>
    /\ hres = [tag |-> "None"]
    /\ hfields = TestFields
    /\ hview = [tag |-> "None"]

Push ==
    /\ panicked = ""
    /\ \E n \in 0 .. (Len(stream) - fed), overflow_checks \in BOOLEAN :
          /\ Install(push(Parser, SubSeq(stream, fed + 1, fed + n), overflow_checks))
          /\ fed' = fed + n
    /\ op' = "push"
    /\ pre' = state
    /\ npush' = IF npush < PushCap THEN npush + 1 ELSE npush
    /\ UNCHANGED <<stream, started, mark, hbuf, hres, hfields, hview>>

Start ==
    /\ panicked = ""
    /\ Install([start(Parser) EXCEPT !.decoded = << >>])
    /\ op' = "start"
    /\ pre' = state
    /\ started' = TRUE
    /\ mark' = Len(consumer)
    /\ UNCHANGED <<stream, fed, npush, hbuf, hres, hfields, hview>>

Next == Push \/ Start

Spec == Init /\ [][Next]_vars

----------------------------------------------------------------------------
(* The header decoder used on its own: from_bytes applied to a buffer of   *)
(* any length, as a caller holding a byte slice may do.                    *)

\* the longest buffer handed to from_bytes directly
MaxBuf == 11

\* header field values around every limit the decoder tests
LimitFields ==
    {[TestFields EXCEPT !.sync_word = sw,
                        !.protection_absent = pa,
                        !.frame_length = fl] :
        sw \in {4095, 4079, 2047, 0},
        pa \in {0, 1},
        fl \in {0, 3, 6, 7, 8, 9, 10, 11, 255, 256, 2047, 2048, 4096, 8191}}

\* every value of the fields of bytes 1 and 2, in a frame that decodes
CodecFields ==
    {[TestFields EXCEPT !.mpeg_version = v,
                        !.protection_absent = pa,
                        !.object_type = ot,
                        !.sampling_frequency_index = sfi,
                        !.frame_length = 10] :
        v \in {0, 1}, pa \in {0, 1}, ot \in 0 .. 3, sfi \in 0 .. 15}

\* every value of the fields of bytes 2 and 3, in a frame that decodes
FlagFields ==
    {[TestFields EXCEPT !.protection_absent = pa,
                        !.private_bit = pb,
                        !.channel_configuration = cc,
                        !.original_copy = oc,
                        !.home = hm,
                        !.copyright_identification_bit = cib,
                        !.copyright_identification_start = cis,
                        !.frame_length = 10] :
        pa \in {0, 1}, pb \in {0, 1}, cc \in 0 .. 7, oc \in {0, 1},
        hm \in {0, 1}, cib \in {0, 1}, cis \in {0, 1}}

\* the fields of bytes 5 and 6, around every bit of the buffer fullness
TailFields ==
    {[TestFields EXCEPT !.protection_absent = pa,
                        !.frame_length = fl,
                        !.adts_buffer_fullness = bf,
                        !.number_of_raw_data_blocks_in_frame = nb] :
        pa \in {0, 1}, fl \in {9, 10, 8191},
        bf \in {0, 1, 63, 64, 123, 255, 256, 512, 1024, 1500, 2047},
        nb \in 0 .. 3}

HeaderFields == LimitFields \cup CodecFields \cup FlagFields \cup TailFields

\* the bytes write_frame produces for the fields f, followed by a checksum
\* when f announces one and by payload bytes, cut to n bytes
HeaderBuf(f, n) ==
    Take(write_frame(f, IF f.protection_absent = 0 THEN <<18, 52>> ELSE << >>,
                     <<129, 66, 255, 241, 0>>), n)

HeaderBufs ==
    {HeaderBuf(f, n) : f \in HeaderFields, n \in 0 .. MaxBuf}

\* the indices of the buffer the accessors of a header read
accessor_reads(buf) ==
    (0 .. 6) \cup (IF protection(buf) = "CrcPresent" THEN {7, 8} ELSE {})

\* what each accessor of a decoded header returns
accessors(buf) ==
    [tag                                |-> "Ok",
     mpeg_version                       |-> mpeg_version(buf),
     protection                         |-> protection(buf),
     audio_object_type                  |-> audio_object_type(buf),
     sampling_frequency                 |-> sampling_frequency(buf),
     private_bit                        |-> private_bit(buf),
     channel_configuration              |-> channel_configuration(buf),
     originality                        |-> originality(buf),
     home                               |-> home(buf),
     copyright_identification_bit       |-> copyright_identification_bit(buf),
     copyright_identification_start     |-> copyright_identification_start(buf),
     frame_length                       |-> frame_length(buf),
     header_length                      |-> header_length(buf),
     payload_length                     |-> payload_length(buf),
     adts_buffer_fullness               |-> adts_buffer_fullness(buf),
     crc                                |-> crc(buf),
     number_of_raw_data_blocks_in_frame |-> number_of_raw_data_blocks_in_frame(buf),
     payload                            |-> payload(buf)]

\* the accessors applied to the header from_bytes returned: indexing the
\* buffer at or past its length panics
inspect(buf, r) ==
    IF r.tag # "Ok" THEN [tag |-> "NoHeader"]
    ELSE IF \E i \in accessor_reads(buf) : i >= Len(buf)
         THEN [tag |-> "Panic"]
         ELSE accessors(buf)

InitHeader ==
    /\ stream = << >>
    /\ Fresh
    /\ hfields \in HeaderFields
    /\ hbuf \in {HeaderBuf(hfields, n) : n \in 0 .. MaxBuf}
    /\ hres = [tag |-> "None"]
    /\ hview = [tag |-> "None"]

Decode ==
    /\ hres.tag = "None"
    /\ hres' = from_bytes(hbuf)
    /\ hview' = inspect(hbuf, hres')
    /\ UNCHANGED <<state, current_config, incomplete_frame, desired_data_len,
                   consumer, panicked, stream, fed, op, pre, decoded, npush,
                   started, mark, hbuf, hfields>>

NextHeader == Decode

SpecHeader == InitHeader /\ [][NextHeader]_vars

----------------------------------------------------------------------------
(* Vocabulary of the properties. *)

\* the largest value of the 13-bit frame_length field
MaxFrameLength == 8191

\* the callbacks of pushing the whole of s to a fresh parser in one call
OneShot(s) == push(new, s, TRUE).consumer

\* streams made of well-formed frames only
GoodStreams == {s \in Streams : \E n \in 1 .. (MaxLen \div 7) : s \in Concats(GoodFrames, n)}

\* streams made of exactly two well-formed frames
TwoFrameStreams == Concats(GoodFrames, 2)

\* the pieces a stream was built from, in order
RECURSIVE SplitPieces(_)
SplitPieces(s) ==
    IF s = << >> THEN << >>
    ELSE LET g == CHOOSE g \in Pieces : Len(g) <= Len(s) /\ Take(s, Len(g)) = g
         IN  <<g>> \o SplitPieces(Drop(s, Len(g)))

\* the names of the callbacks of a call log, in order
Cbs(log) == [i \in 1 .. Len(log) |-> log[i].cb]

\* the positions in a call log of the callbacks named c
Where(log, c) == {i \in 1 .. Len(log) : log[i].cb = c}

\* the position in a call log of the k-th payload callback
NthPayload(log, k) ==
    CHOOSE i \in Where(log, "payload") :
        Cardinality({j \in Where(log, "payload") : j <= i}) = k

\* the decode results that fault the parser
Fatal == {"BadSyncWord", "BadFrameLength"}

\* the fields of the parser itself
parser_vars ==
    <<state, current_config, incomplete_frame, desired_data_len, consumer>>

----------------------------------------------------------------------------
(* C1: chunking is not observable.  Once a stream of well-formed frames    *)
(* has been pushed whole to a fresh parser, in any number of chunks of any *)
(* lengths, the consumer has seen exactly the callbacks of pushing the     *)
(* stream in one call.                                                     *)
C1_ChunkingNotObservable ==
    (stream \in GoodStreams /\ ~started /\ fed = Len(stream))
        => consumer = OneShot(stream)

(* C2, as claimed: a two-frame stream pushed in two chunks gives exactly   *)
(* one new_config followed by two payloads, the callbacks of the one-call  *)
(* push, and no error.                                                     *)
C2_TwoChunksOneConfig ==
    (stream \in TwoFrameStreams /\ ~started /\ npush = 2 /\ fed = Len(stream))
        => /\ consumer = OneShot(stream)
           /\ Cbs(consumer) = <<"new_config", "payload", "payload">>

(* C2, amended: a two-frame stream pushed in two chunks gives the          *)
(* callbacks of the one-call push: two payloads, the first preceded by a   *)
(* new_config, no error; and exactly one new_config followed by the two    *)
(* payloads when the two frames start with the same three bytes.           *)
C2_TwoChunks ==
    (stream \in TwoFrameStreams /\ ~started /\ npush = 2 /\ fed = Len(stream))
        => /\ consumer = OneShot(stream)
           /\ Where(consumer, "error") = {}
           /\ Cardinality(Where(consumer, "payload")) = 2
           /\ consumer[1].cb = "new_config"
           /\ LET fr == SplitPieces(stream)
              IN  /\ consumer[NthPayload(consumer, 1)].buf
                        = Drop(fr[1], header_length(fr[1]))
                  /\ consumer[NthPayload(consumer, 2)].buf
                        = Drop(fr[2], header_length(fr[2]))
                  /\ Take(fr[1], 3) = Take(fr[2], 3)
                        => Cbs(consumer) = <<"new_config", "payload", "payload">>

\* two frames of two configurations, split inside the first frame's header
C2_Witness ==
    /\ stream \in TwoFrameStreams /\ ~started /\ npush = 2 /\ fed = Len(stream)
    /\ pre = "Incomplete"
    /\ decoded[1].tag = "NotEnoughData"
    /\ Cbs(consumer) = <<"new_config", "payload", "new_config", "payload">>

(* C3: NotEnoughData never faults the parser.  When the last decode of a   *)
(* push made in AwaitingMore (Incomplete) is NotEnoughData{expected}, the  *)
(* push returns in Incomplete with desired length expected; and the parser *)
(* is in Error only if error() was delivered since creation or the last    *)
(* start().                                                                *)
C3_NotEnoughDataNeverFaults ==
    /\ (/\ op = "push" /\ pre = "Incomplete" /\ decoded # << >>
        /\ decoded[Len(decoded)].tag = "NotEnoughData")
          => /\ state = "Incomplete"
             /\ desired_data_len = Some(decoded[Len(decoded)].expected)
    /\ state = "Error" => \E i \in (mark + 1) .. Len(consumer) : consumer[i].cb = "error"

(* C4: a push made while the parser is in Error changes nothing: no        *)
(* callback, and state, fingerprint, buffer and desired length unchanged.  *)
C4_FaultedPushIsNoOp ==
    [][(state = "Error" /\ op' = "push") => UNCHANGED parser_vars]_vars

\* a push was made in Error, after some bytes of the stream were left over
C4_Witness ==
    /\ op = "push" /\ pre = "Error" /\ state = "Error"
    /\ npush >= 2 /\ fed = Len(stream)
    /\ consumer # << >> /\ consumer[Len(consumer)].cb = "error"

(* C5: when a decode of a push returns BadSyncWord or BadFrameLength, it   *)
(* is the last decode of that push, the push began in Start or Incomplete, *)
(* error() is called once in that push, last and with that kind, and the   *)
(* parser is in Error; and a push in Error makes no callback.              *)
C5_FatalHeaderFaults ==
    [][/\ (op' = "push" /\ \E i \in 1 .. Len(decoded') : decoded'[i].tag \in Fatal)
            => /\ state \in {"Start", "Incomplete"}
               /\ \A i \in 1 .. (Len(decoded') - 1) : decoded'[i].tag \notin Fatal
               /\ state' = "Error"
               /\ Len(consumer') > Len(consumer)
               /\ consumer'[Len(consumer')] =
                      [cb |-> "error", err |-> decoded'[Len(decoded')].tag]
               /\ \A i \in (Len(consumer) + 1) .. (Len(consumer') - 1) :
                      consumer'[i].cb # "error"
       /\ (op' = "push" /\ state = "Error") => consumer' = consumer
      ]_vars

\* BadFrameLength met while completing a buffered header
C5_Witness ==
    /\ op = "push" /\ pre = "Incomplete" /\ state = "Error"
    /\ decoded # << >> /\ decoded[Len(decoded)].tag = "BadFrameLength"
    /\ consumer # << >>
    /\ consumer[Len(consumer)] = [cb |-> "error", err |-> "BadFrameLength"]

(* C6: new_config exactly on a changed fingerprint.  With no start(), the  *)
(* k-th payload callback is for the k-th frame of the stream; it is        *)
(* immediately preceded by a new_config iff that frame's first 3 bytes     *)
(* differ from those of the frame before (from 00 00 00 for the first      *)
(* frame, which therefore always has one); every new_config is immediately *)
(* followed by a payload; and the stored fingerprint is the first 3 bytes  *)
(* of the last frame delivered.                                            *)
C6_NewConfigOnChange ==
    ~started =>
        LET fr == SplitPieces(stream)
            n  == Cardinality(Where(consumer, "payload"))
            fp(k) == IF k = 0 THEN <<0, 0, 0>> ELSE Take(fr[k], 3)
        IN  /\ n <= Len(fr)
            /\ \A k \in 1 .. n :
                  LET i == NthPayload(consumer, k)
                  IN  (i > 1 /\ consumer[i - 1].cb = "new_config") <=> (fp(k) # fp(k - 1))
            /\ \A i \in Where(consumer, "new_config") :
                  i < Len(consumer) /\ consumer[i + 1].cb = "payload"
            /\ n >= 1 => consumer[1].cb = "new_config"
            /\ current_config = fp(n)

\* a second frame with the fingerprint of the first: no second new_config
C6_Witness ==
    /\ ~started /\ op = "push" /\ pre = "Incomplete"
    /\ Cbs(consumer) = <<"new_config", "payload", "payload">>
    /\ current_config = Take(stream, 3)

(* C7: start() leaves the parser in Start and calls nothing back; from     *)
(* Incomplete it empties the buffer and clears the desired length, from    *)
(* Start it changes nothing, and a second start() in a row changes nothing.*)
C7_StartResets ==
    [][op' = "start" =>
          /\ state' = "Start"
          /\ consumer' = consumer
          /\ state = "Incomplete" => incomplete_frame' = << >> /\ desired_data_len' = None
          /\ state = "Start" => UNCHANGED parser_vars
          /\ op = "start" => UNCHANGED parser_vars
      ]_vars

\* start() called with a partial frame buffered
C7_Witness ==
    /\ op = "start" /\ pre = "Incomplete" /\ state = "Start"
    /\ incomplete_frame = << >> /\ desired_data_len = None
    /\ fed > 0

(* C8: the buffer never holds more than 8191 bytes; in Incomplete it is    *)
(* non-empty and shorter than the desired length, which is 7, 9 or the     *)
(* frame_length declared by the buffered header.                           *)
C8_BufferBound ==
    /\ Len(incomplete_frame) <= MaxFrameLength
    /\ state = "Incomplete" =>
          /\ incomplete_frame # << >>
          /\ desired_data_len # None
          /\ Len(incomplete_frame) < desired_data_len[1]
          /\ desired_data_len[1] <= MaxFrameLength
          /\ \/ desired_data_len[1] \in {7, 9}
             \/ /\ Len(incomplete_frame) >= 7
                /\ desired_data_len[1] = frame_length(incomplete_frame)

\* a header declaring 8191 bytes is buffered with bytes that followed it
C8_Witness ==
    /\ state = "Incomplete" /\ desired_data_len = Some(MaxFrameLength)
    /\ Len(incomplete_frame) > 7
    /\ op = "push" /\ pre = "Incomplete"

(* C9: boundary buffering.  A proper non-empty prefix of a well-formed     *)
(* frame pushed to a fresh parser gives no callback and leaves it in       *)
(* Incomplete; once the rest is pushed in a second call the callbacks are  *)
(* those of the one-call push, new_config then the payload, and the parser *)
(* is in Start.                                                            *)
C9_BoundaryBuffering ==
    (stream \in GoodFrames /\ ~started) =>
        /\ (npush = 1 /\ 0 < fed /\ fed < Len(stream))
              => consumer = << >> /\ state = "Incomplete"
        /\ (npush = 2 /\ fed = Len(stream))
              => /\ consumer = OneShot(stream)
                 /\ Cbs(consumer) = <<"new_config", "payload">>
                 /\ consumer[2].buf = Drop(stream, header_length(stream))
                 /\ state = "Start"

\* a 9-byte frame completed by the second push after fewer than 7 bytes
C9_Witness ==
    /\ stream \in GoodFrames /\ ~started /\ Len(stream) = 9
    /\ npush = 2 /\ fed = Len(stream) /\ pre = "Incomplete"
    /\ decoded # << >> /\ decoded[1].tag = "NotEnoughData"
    /\ Cbs(consumer) = <<"new_config", "payload">>

Viewed == hres.tag = "Ok" /\ hview.tag = "Ok"

\* the enum values the written field values stand for
WrittenVersion(f) == IF f.mpeg_version = 1 THEN "Mpeg2" ELSE "Mpeg4"

WrittenProtection(f) ==
    IF f.protection_absent = 1 THEN "CrcAbsent" ELSE "CrcPresent"

WrittenProfile(f) ==
    CASE f.object_type = 0 -> "AacMain"
      [] f.object_type = 1 -> "AacLC"
      [] f.object_type = 2 -> "AacSSR"
      [] f.object_type = 3 -> "AacLTP"

WrittenChannels(f) ==
    CASE f.channel_configuration = 0 -> "ObjectTypeSpecificConfig"
      [] f.channel_configuration = 1 -> "Mono"
      [] f.channel_configuration = 2 -> "Stereo"
      [] f.channel_configuration = 3 -> "Three"
      [] f.channel_configuration = 4 -> "Four"
      [] f.channel_configuration = 5 -> "Five"
      [] f.channel_configuration = 6 -> "FiveOne"
      [] f.channel_configuration = 7 -> "SevenOne"

WrittenHeaderLength(f) == IF f.protection_absent = 1 THEN 7 ELSE 9

\* C11: for every buffer-fullness value v in 0 .. 2047 written into the
\* low 5 bits of byte 5 and the high 6 bits of byte 6, adts_buffer_fullness()
\* of the decoded header returns v.
C11_FullnessRoundTrip ==
    Viewed =>
        /\ hfields.adts_buffer_fullness =
              (hbuf[6] % 32) * 64 + (hbuf[7] \div 4)
        /\ hview.adts_buffer_fullness = hfields.adts_buffer_fullness

\* C12: private_bit() returns the bit write_frame wrote as private_bit,
\* bit 1 of byte 2, whatever the channel configuration is.
C12_PrivateBitRoundTrip ==
    Viewed =>
        /\ hfields.private_bit = (hbuf[3] \div 2) % 2
        /\ hview.private_bit = hfields.private_bit

\* hbuf holds the whole header of a frame write_frame wrote with a valid
\* sync word and a frame_length of at least the header length, and
\* from_bytes has been applied to it
WellFormedDecoded ==
    /\ hres.tag # "None"
    /\ hfields.sync_word = 4095
    /\ hfields.frame_length >= WrittenHeaderLength(hfields)
    /\ Len(hbuf) >= WrittenHeaderLength(hfields)

\* C13: header round trip. For the field values write_frame wrote (version,
\* protection, profile, sampling-frequency index, channel configuration,
\* originality, home, copyright-id bit, copyright-id start, frame_length in
\* header_length .. 8191, stored block count) decoding succeeds and each
\* accessor returns the written value, the block count as stored + 1; the
\* test frame decodes to Mpeg4, CrcAbsent, AacMain, 48000 Hz, Stereo,
\* frame_length 8, payload_length 1 and payload <<129>>.
C13_HeaderRoundTrip ==
    WellFormedDecoded =>
        /\ Viewed
        /\ hview.mpeg_version = WrittenVersion(hfields)
        /\ hview.protection = WrittenProtection(hfields)
        /\ hview.audio_object_type = WrittenProfile(hfields)
        /\ hview.sampling_frequency = hfields.sampling_frequency_index
        /\ hview.channel_configuration = WrittenChannels(hfields)
        /\ hview.originality =
              (IF hfields.original_copy = 1 THEN "Copy" ELSE "Original")
        /\ hview.home = hfields.home
        /\ hview.copyright_identification_bit =
              hfields.copyright_identification_bit
        /\ hview.copyright_identification_start =
              (IF hfields.copyright_identification_start = 1
               THEN "Start" ELSE "Other")
        /\ hview.frame_length = hfields.frame_length
        /\ hview.number_of_raw_data_blocks_in_frame =
              hfields.number_of_raw_data_blocks_in_frame + 1
        /\ hview.number_of_raw_data_blocks_in_frame \in 1 .. 4
        /\ hbuf = TestFrame =>
              /\ hview.mpeg_version = "Mpeg4"
              /\ hview.protection = "CrcAbsent"
              /\ hview.audio_object_type = "AacMain"
              /\ freq(hview.sampling_frequency) = Some(48000)
              /\ hview.channel_configuration = "Stereo"
              /\ hview.frame_length = 8
              /\ hview.payload_length = Some(1)
              /\ hview.payload = [tag |-> "Ok", bytes |-> <<129>>]

\* a decoded header with channel configuration 7, sampling index 3, Mpeg4
C13_Witness ==
    /\ WellFormedDecoded
    /\ hfields.channel_configuration = 7
    /\ hfields.private_bit = 0
    /\ hfields.protection_absent = 0
    /\ hview.channel_configuration = "SevenOne"
    /\ hview.originality = "Original"

\* the test frame has been decoded
C13_TestFrameDecoded == hbuf = TestFrame /\ Viewed

\* the 12 bits a buffer of two bytes or more starts with
TopBits(buf) == buf[1] * 16 + (buf[2] \div 16)

\* C14: a buffer of at least 7 bytes whose first 12 bits are not 0xFFF
\* decodes to BadSyncWord carrying those 12 bits, whatever the rest of the
\* header and the length are; a buffer whose first 12 bits are 0xFFF never
\* decodes to BadSyncWord.
C14_BadSyncWord ==
    (hres.tag # "None" /\ Len(hbuf) >= 2) =>
        /\ TopBits(hbuf) = hfields.sync_word
        /\ (Len(hbuf) >= 7 /\ TopBits(hbuf) # 4095) =>
              hres = [tag |-> "BadSyncWord", value |-> TopBits(hbuf)]
        /\ TopBits(hbuf) = 4095 => hres.tag # "BadSyncWord"

\* a 9-byte buffer starting 0xFEF, checksum flagged, frame_length 3
C14_Witness ==
    /\ hres = [tag |-> "BadSyncWord", value |-> 4079]
    /\ hfields.protection_absent = 0
    /\ hfields.frame_length = 3
    /\ Len(hbuf) = 9

\* C15: for a buffer that holds its whole header (7 bytes, 9 with a
\* checksum) and starts with the sync word, decoding fails with
\* BadFrameLength{minimum: header_length, actual: frame_length} exactly when
\* frame_length is below header_length; frame_length 3 without checksum
\* gives {minimum: 7, actual: 3}; frame_length equal to header_length is
\* accepted.
C15_BadFrameLength ==
    (/\ hres.tag # "None"
     /\ hfields.sync_word = 4095
     /\ Len(hbuf) >= WrittenHeaderLength(hfields)) =>
        /\ hfields.frame_length < WrittenHeaderLength(hfields) =>
              hres = [tag |-> "BadFrameLength",
                      actual |-> hfields.frame_length,
                      minimum |-> WrittenHeaderLength(hfields)]
        /\ hfields.frame_length >= WrittenHeaderLength(hfields) =>
              hres.tag = "Ok"
        /\ (hfields.frame_length = 3 /\ hfields.protection_absent = 1) =>
              hres = [tag |-> "BadFrameLength", actual |-> 3, minimum |-> 7]

\* frame_length 8 under a 9-byte header is refused
C15_Witness ==
    /\ hres = [tag |-> "BadFrameLength", actual |-> 8, minimum |-> 9]
    /\ Len(hbuf) = 9

\* frame_length equal to the 9-byte header length is accepted
C15_AcceptedAtMinimum ==
    /\ hres.tag = "Ok"
    /\ hfields.protection_absent = 0
    /\ hfields.frame_length = 9

\* C16: for a decoded header over a buffer of n bytes, payload() is the
\* bytes at indices header_length .. frame_length - 1 of the buffer when
\* n >= frame_length (none when frame_length = header_length, never the
\* checksum bytes), and PayloadError{expected: frame_length, actual: n}
\* exactly when n < frame_length.
C16_Payload ==
    Viewed =>
        LET hl == WrittenHeaderLength(hfields)
            fl == hfields.frame_length
            n  == Len(hbuf)
        IN  /\ n >= fl =>
                  /\ hview.payload.tag = "Ok"
                  /\ Len(hview.payload.bytes) = fl - hl
                  /\ \A i \in 1 .. fl - hl :
                        hview.payload.bytes[i] = hbuf[hl + i]
            /\ n < fl =>
                  hview.payload =
                      [tag |-> "PayloadError", expected |-> fl, actual |-> n]

\* a checksum-present frame of 11 bytes: the payload is its last 2 bytes
C16_Witness ==
    /\ Viewed
    /\ hfields.protection_absent = 0
    /\ hfields.frame_length = 11
    /\ hview.payload = [tag |-> "Ok", bytes |-> <<129, 66>>]

\* the buffer ends before the frame does
C16_PayloadErrorReached ==
    /\ Viewed
    /\ hview.payload = [tag |-> "PayloadError", expected |-> 10, actual |-> 9]

\* ---------------------------------------------------------------------
\* Panics and termination of push
\* ---------------------------------------------------------------------

\* C17: push never panics, whatever chunks (empty ones included) and
\* start() calls came before: from_bytes is never handed an empty slice,
\* desired_data_len is present whenever the state is Incomplete, it exceeds
\* the buffered length so that the bytes-needed subtraction cannot
\* underflow, and push_payload never meets a PayloadError.
C17_PushNeverPanics ==
    /\ panicked = ""
    /\ \A i \in 1 .. Len(decoded) : decoded[i].tag # "Panic"
    /\ state = "Incomplete" =>
          /\ desired_data_len # None
          /\ desired_data_len[1] > Len(incomplete_frame)

\* an empty chunk pushed while a partial frame is buffered, after a start()
C17_Witness ==
    /\ op = "push"
    /\ pre = "Incomplete"
    /\ state = "Incomplete"
    /\ started
    /\ decoded = << >>
    /\ incomplete_frame # << >>
    /\ panicked = ""

\* the loop iterations d of one push make progress: every iteration but the
\* last went round again, and then a Start iteration had decoded a header
\* and moved on by its frame_length of 7 or more, an Incomplete iteration
\* either completed a frame and handed over to the Start loop or was
\* followed by one that decoded a strictly longer buffer; every Incomplete
\* iteration took at least one byte of the chunk
Progress(d) ==
    \A i \in 1 .. Len(d) :
        /\ d[i].left >= 0
        /\ d[i].loop = "Start" => d[i].left >= 1
        /\ d[i].loop = "Incomplete" => d[i].took >= 1
        /\ i < Len(d) =>
              /\ d[i].loop = "Start" =>
                    /\ d[i].tag = "Ok"
                    /\ d[i].flen >= 7
                    /\ d[i + 1].loop = "Start"
                    /\ d[i + 1].left = d[i].left - d[i].flen
              /\ (d[i].loop = "Incomplete" /\ d[i + 1].loop = "Incomplete") =>
                    /\ d[i + 1].len > d[i].len
                    /\ d[i + 1].left = d[i].left - d[i + 1].took
              /\ (d[i].loop = "Incomplete" /\ d[i + 1].loop = "Start") =>
                    /\ d[i].tag = "Ok"
                    /\ d[i].flen = d[i].len
                    /\ d[i + 1].left = d[i].left

\* C18: push terminates. Each iteration of the Start loop returns or moves
\* the position on by frame_length >= 7; each iteration of the Incomplete
\* loop returns, completes the frame, or raises the desired length strictly
\* having consumed at least one byte of the chunk; so a push of n bytes
\* makes at most n + 1 iterations that reach a decode.
C18_PushTerminates ==
    [][op' = "push" =>
          /\ Progress(decoded')
          /\ Len(decoded') <= (fed' - fed) + 1
          /\ decoded' # << >> =>
                decoded'[1].left + decoded'[1].took <= fed' - fed]_vars

\* one push that went three times round the Incomplete loop (7, then 9,
\* then 10 bytes decoded) and then on into the Start loop
C18_Witness ==
    /\ op = "push"
    /\ pre = "Incomplete"
    /\ Len(decoded) >= 4
    /\ decoded[1].loop = "Incomplete" /\ decoded[1].tag = "NotEnoughData"
    /\ decoded[2].loop = "Incomplete" /\ decoded[2].tag = "Ok"
    /\ decoded[3].loop = "Incomplete" /\ decoded[3].tag = "Ok"
    /\ decoded[4].loop = "Start"

\* one push that went twice round the Start loop
C18_StartLoopTwice ==
    /\ op = "push"
    /\ pre = "Start"
    /\ Len(decoded) >= 2
    /\ decoded[1].flen = 8
    /\ decoded[2].loop = "Start"

\* C19: once from_bytes succeeded no accessor can fail: every index the
\* accessors read is below the buffer length; header_length is 9 exactly
\* when the checksum is present and 7 otherwise; crc() returns a value
\* exactly when the checksum is present, the buffer then has at least 9
\* bytes and the value is byte 7 << 8 | byte 8.
C19_AccessorsNeverFail ==
    hres.tag = "Ok" =>
        /\ hview.tag = "Ok"
        /\ \A i \in accessor_reads(hbuf) : i < Len(hbuf)
        /\ hview.header_length = WrittenHeaderLength(hfields)
        /\ hview.header_length = 9 <=> hview.protection = "CrcPresent"
        /\ hview.header_length = 7 <=> hview.protection = "CrcAbsent"
        /\ hview.crc # None <=> hfields.protection_absent = 0
        /\ hfields.protection_absent = 0 =>
              /\ Len(hbuf) >= 9
              /\ hview.crc = Some(hbuf[8] * 256 + hbuf[9])

\* a 9-byte buffer that is all header: sync word, checksum 0x1234
C19_Witness ==
    /\ hres.tag = "Ok"
    /\ Len(hbuf) = 9
    /\ hview.tag = "Ok"
    /\ hview.header_length = 9
    /\ hview.crc = Some(4660)

\* a decoded header without checksum: crc() is None
C19_NoCrc ==
    /\ hres.tag = "Ok"
    /\ Len(hbuf) = 7
    /\ hview.tag = "Ok"
    /\ hview.crc = None

\* ---------------------------------------------------------------------
\* A malformed header met by the Start loop
\* ---------------------------------------------------------------------

\* the payload callbacks of a call log, in order
Payloads(log) == SelectSeq(log, LAMBDA c : c.cb = "payload")

\* C20: a push in state Start whose chunk holds zero or more whole valid
\* frames and then a header that decodes to BadSyncWord or BadFrameLength
\* delivers the callbacks of the frames before it, in order and exactly as
\* a push of those frames alone would, then error(), and returns: the state
\* is Error, nothing of the chunk goes into incomplete_frame, and the pushes
\* that follow decode nothing until start() is called.
C20_BadHeaderInStartLoop ==
    [][/\ (/\ op' = "push"
           /\ state = "Start"
           /\ decoded' # << >>
           /\ decoded'[Len(decoded')].tag \in Fatal) =>
              LET chunk == SubSeq(stream, fed + 1, fed')
                  d     == decoded'
                  k     == Len(d) - 1
                  calls == SubSeq(consumer', Len(consumer) + 1, Len(consumer'))
                  bad   == Len(chunk) - d[k + 1].left
              IN  /\ \A i \in 1 .. k : d[i].tag = "Ok" /\ d[i].loop = "Start"
                  /\ consumer' = push(Parser, Take(chunk, bad), TRUE).consumer
                                 \o <<[cb |-> "error", err |-> d[k + 1].tag]>>
                  /\ Len(Payloads(calls)) = k
                  /\ \A i \in 1 .. k :
                        LET off == Len(chunk) - d[i].left
                            hl  == IF chunk[off + 2] % 2 = 1 THEN 7 ELSE 9
                        IN  Payloads(calls)[i].buf =
                                SubSeq(chunk, off + hl + 1, off + d[i].flen)
                  /\ calls[Len(calls)].cb = "error"
                  /\ state' = "Error"
                  /\ incomplete_frame' = incomplete_frame
                  /\ desired_data_len' = desired_data_len
       /\ (op' = "push" /\ state = "Error") =>
              /\ decoded' = << >>
              /\ state' = "Error"
              /\ consumer' = consumer
              /\ incomplete_frame' = incomplete_frame]_vars

\* the first push to a fresh parser: one valid frame, then a header with a
\* bad sync word and a byte after it, all in one chunk
C20_Witness ==
    /\ op = "push"
    /\ pre = "Start"
    /\ npush = 1
    /\ ~started
    /\ fed = 16
    /\ state = "Error"
    /\ Len(decoded) = 2
    /\ decoded[2].tag = "BadSyncWord"
    /\ decoded[2].left = 8
    /\ Cbs(consumer) = <<"new_config", "payload", "error">>
    /\ incomplete_frame = << >>

\* a later push while faulted by the Start loop, the rest of the bad chunk
\* and the frame after it pushed again
C20_LaterPush ==
    /\ op = "push"
    /\ pre = "Error"
    /\ npush = 2
    /\ ~started
    /\ fed = Len(stream)
    /\ Cbs(consumer) = <<"error">>
    /\ incomplete_frame = << >>

\* ---------------------------------------------------------------------
\* The Start loop: deliver from the chunk or keep the tail
\* ---------------------------------------------------------------------

\* iteration i of the iterations d of a push in state Start delivered its
\* frame: it went round again, or it was the last and left the state Start
Emitted(d, i, st) == i < Len(d) \/ st = "Start"

\* the header length announced by the header at offset off of chunk
HeaderLengthAt(chunk, off) == IF chunk[off + 2] % 2 = 1 THEN 7 ELSE 9

\* C21 as stated: in state Start a decoded header's frame is delivered
\* from the chunk exactly when header_length + frame_length fits within
\* the bytes of the chunk that remain.
C21_EmitWhenHeaderAndFrameFit ==
    [][(op' = "push" /\ state = "Start") =>
          LET chunk == SubSeq(stream, fed + 1, fed')
              d     == decoded'
          IN  \A i \in 1 .. Len(d) :
                  d[i].tag = "Ok" =>
                      (Emitted(d, i, state') <=>
                          HeaderLengthAt(chunk, Len(chunk) - d[i].left)
                              + d[i].flen <= d[i].left)]_vars

\* C21: in state Start a decoded header's frame is delivered from the
\* chunk (new_config if the first 3 bytes differ from the stored ones, then
\* payload with the frame's own bytes, then on to the byte after the frame)
\* exactly when frame_length, which counts the header, fits within the
\* bytes of the chunk that remain; otherwise the rest of the chunk is
\* buffered, frame_length is the desired length and the state is Incomplete.
C21_EmitWhenFrameFits ==
    [][(op' = "push" /\ state = "Start") =>
          LET chunk == SubSeq(stream, fed + 1, fed')
              d     == decoded'
              calls == SubSeq(consumer', Len(consumer) + 1, Len(consumer'))
              off(i) == Len(chunk) - d[i].left
              fp(i) == IF i = 0 THEN current_config
                       ELSE SubSeq(chunk, off(i) + 1, off(i) + 3)
              sent  == {i \in 1 .. Len(d) :
                          d[i].tag = "Ok" /\ Emitted(d, i, state')}
          IN  /\ Len(Payloads(calls)) = Cardinality(sent)
              /\ sent \in {1 .. Len(d), 1 .. (Len(d) - 1)}
              /\ \A i \in 1 .. Len(d) :
                    d[i].tag = "Ok" =>
                        /\ Emitted(d, i, state') <=> d[i].flen <= d[i].left
                        /\ i \in sent =>
                              LET j == NthPayload(calls, i)
                              IN  /\ calls[j].buf =
                                        SubSeq(chunk,
                                               off(i) + HeaderLengthAt(chunk, off(i)) + 1,
                                               off(i) + d[i].flen)
                                  /\ (j > 1 /\ calls[j - 1].cb = "new_config")
                                        <=> fp(i) # fp(i - 1)
                                  /\ i < Len(d) =>
                                        d[i + 1].left = d[i].left - d[i].flen
                        /\ i \notin sent =>
                              /\ state' = "Incomplete"
                              /\ incomplete_frame' = Drop(chunk, off(i))
                              /\ desired_data_len' = Some(d[i].flen)]_vars

\* a chunk that is exactly one 8-byte frame: delivered, nothing buffered
C21_Witness ==
    /\ op = "push"
    /\ pre = "Start"
    /\ npush = 1
    /\ ~started
    /\ fed = 8
    /\ Len(decoded) = 1
    /\ decoded[1].flen = 8 /\ decoded[1].left = 8
    /\ state = "Start"
    /\ Cbs(consumer) = <<"new_config", "payload">>

\* a chunk that ends one byte before its second frame does
C21_TailKept ==
    /\ op = "push"
    /\ pre = "Start"
    /\ npush = 1
    /\ ~started
    /\ Len(decoded) = 2
    /\ decoded[2].tag = "Ok"
    /\ decoded[2].left = decoded[2].flen - 1
    /\ state = "Incomplete"
    /\ Cbs(consumer) = <<"new_config", "payload">>

\* ---------------------------------------------------------------------
\* Configuration changes, callback prefixes and buffered bytes
\* ---------------------------------------------------------------------

\* the configuration values new_config reports for the frame h
ConfigValues(h) ==
    [mpeg_version |-> mpeg_version(h),
     protection   |-> protection(h),
     aot          |-> audio_object_type(h),
     freq         |-> sampling_frequency(h),
     private_bit  |-> private_bit(h),
     channels     |-> channel_configuration(h),
     originality  |-> originality(h),
     home         |-> home(h)]

\* C22: with no start(), whenever the configuration values of a delivered
\* frame (version, protection, profile, sampling frequency, private bit,
\* channel configuration, originality, home) differ in any value from
\* those of the frame delivered before it, new_config is called for that
\* frame, with its values, right before its payload.
C22_NewConfigOnChangedValues ==
    ~started =>
        LET fr == SplitPieces(stream)
            n  == Cardinality(Where(consumer, "payload"))
        IN  \A k \in 2 .. n :
                ConfigValues(fr[k]) # ConfigValues(fr[k - 1]) =>
                    LET i == NthPayload(consumer, k)
                    IN  /\ consumer[i - 1].cb = "new_config"
                        /\ consumer[i - 1] =
                              [cb |-> "new_config"] @@ ConfigValues(fr[k])

\* the stream is made of well-formed frames only
AllValid == \A i \in 1 .. Len(SplitPieces(stream)) : SplitPieces(stream)[i] \in GoodFrames

\* C23: for a stream of valid frames, any chunking and no start(), the
\* callbacks delivered so far are at every moment a prefix of the callbacks
\* of the whole stream pushed at once: no payload twice, out of order or
\* with a neighbour's bytes, and no error().
C23_CallbacksArePrefix ==
    (~started /\ AllValid) =>
        LET whole == OneShot(stream)
        IN  /\ Len(consumer) <= Len(whole)
            /\ consumer = SubSeq(whole, 1, Len(consumer))
            /\ \A i \in 1 .. Len(consumer) : consumer[i].cb # "error"

\* the first of two valid frames delivered, the second partly pushed and
\* re-decoded while still short, three pushes so far
C23_Witness ==
    /\ ~started
    /\ AllValid
    /\ Len(SplitPieces(stream)) >= 2
    /\ npush = 3
    /\ op = "push"
    /\ pre = "Incomplete"
    /\ state = "Incomplete"
    /\ Cardinality(Where(consumer, "payload")) = 1
    /\ Cardinality(Where(OneShot(stream), "payload")) = 2
    /\ Len(decoded) >= 2

\* the total length of the first n of the pieces fr
RECURSIVE LengthOf(_, _)
LengthOf(fr, n) == IF n = 0 THEN 0 ELSE LengthOf(fr, n - 1) + Len(fr[n])

\* C24: byte conservation. With no start(), whenever a push has returned
\* in state Incomplete, incomplete_frame is exactly the bytes pushed so far
\* that follow the last delivered frame, none dropped and none twice, and
\* fewer than the desired length; and every buffer the Incomplete loop
\* decoded was no longer than the frame_length its header declares, so no
\* byte of the next frame is taken into it.
C24_ByteConservation ==
    /\ (~started /\ state = "Incomplete") =>
          LET fr   == SplitPieces(stream)
              n    == Cardinality(Where(consumer, "payload"))
              done == LengthOf(fr, n)
          IN  /\ done <= fed
              /\ incomplete_frame = SubSeq(stream, done + 1, fed)
              /\ desired_data_len # None
              /\ Len(incomplete_frame) < desired_data_len[1]
    /\ \A i \in 1 .. Len(decoded) :
          decoded[i].loop = "Incomplete" =>
              /\ decoded[i].tag = "Ok" => decoded[i].len <= decoded[i].flen
              /\ decoded[i].tag = "NotEnoughData" =>
                    decoded[i].len < decoded[i].expected

\* a frame delivered from the buffer and the first bytes of the next one
\* buffered by the same push
C24_Witness ==
    /\ ~started
    /\ op = "push"
    /\ pre = "Incomplete"
    /\ state = "Incomplete"
    /\ Len(decoded) >= 2
    /\ decoded[1].loop = "Incomplete"
    /\ decoded[1].tag = "Ok"
    /\ decoded[1].len = decoded[1].flen
    /\ Cardinality(Where(consumer, "payload")) = 1
    /\ Len(incomplete_frame) >= 8
    /\ fed < Len(stream)

\* ---------------------------------------------------------------------
\* The order of the checks of from_bytes
\* ---------------------------------------------------------------------

C25_ShortBeforeFrameLength ==
    /\ hfields.sync_word = 4095
    /\ hfields.protection_absent = 0
    /\ hfields.frame_length = 3
    /\ Len(hbuf) = 8
    /\ hres = [tag |-> "NotEnoughData", expected |-> 9, actual |-> 8]

\* wrong sync word in a buffer of 6 bytes: the length is what is reported
C25_ShortBeforeSyncWord ==
    /\ hfields.sync_word = 0
    /\ Len(hbuf) = 6
    /\ hres = [tag |-> "NotEnoughData", expected |-> 7, actual |-> 6]

\* ---------------------------------------------------------------------
\* start() and the stored configuration
\* ---------------------------------------------------------------------

\* C26: start() leaves current_config as it was; the first frame delivered
\* after a start() comes with a payload callback only, no new_config, when
\* its first 3 bytes equal the current_config stored before the start();
\* the first frame delivered by a fresh parser always comes with new_config
\* first.
C26_StartKeepsConfig ==
    [][/\ op' = "start" => current_config' = current_config
       /\ (/\ op' = "push"
           /\ Len(consumer') > Len(consumer)
           /\ consumer'[Len(consumer) + 1].cb # "error") =>
              LET chunk == SubSeq(stream, fed + 1, fed')
                  frame == IF state = "Start" THEN chunk
                           ELSE incomplete_frame \o chunk
                  first == consumer'[Len(consumer) + 1]
              IN  /\ (started /\ Len(consumer) = mark) =>
                        /\ Take(frame, 3) = current_config =>
                              first.cb = "payload"
                        /\ Take(frame, 3) # current_config =>
                              first.cb = "new_config"
                  /\ (~started /\ consumer = << >>) =>
                        first.cb = "new_config"]_vars

\* frames delivered, then start(), then a frame with the same first 3
\* bytes delivered by the next push: no new_config for it
C26_Witness ==
    /\ started
    /\ op = "push"
    /\ mark >= 2
    /\ Len(consumer) > mark
    /\ consumer[mark + 1].cb = "payload"
    /\ consumer[mark - 1].cb = "new_config"
    /\ \A i \in 1 .. Len(consumer) : consumer[i].cb # "error"

====
